---- MODULE Spec2Model ----
(***************************************************************************)
(* Asset loading and resource disposal of the 3D scenes.                   *)
(*                                                                         *)
(* SpecLoad    : one load requested through one of the four entry points   *)
(*               (loadAsset, loadSampleModel, ModelLoader.loadModel,       *)
(*               ModelShowcase) and the callbacks of the underlying loader.*)
(* SpecDispose : the disposers (disposeModel, disposeMesh, the traversal   *)
(*               of the scene hosts' unmount cleanup) applied to a node.   *)
(***************************************************************************)
EXTENDS Integers, Sequences, FiniteSets, TLC

VARIABLES
    \* ---- loading ----
    argPath,      \* the path supplied by the caller
    entry,        \* the entry point that was called ("none" before the call)
    assetType,    \* loadAsset's assetType argument
    phase,        \* "idle" | "rejected" | "pending" | "resolved" | "failed"
    loadCalls,    \* the paths handed to the underlying loader's load(), in order
    failure,      \* the error delivered to the caller / stored in the host
    loaderError,  \* the cause the underlying loader reported to its error callback
    reported,     \* the values passed to onProgress / setLoadingProgress, in order
    \* ---- disposal ----
    node,         \* the node handed to the disposer: NullNode or its objects in traversal order
    mapOf,        \* material -> the texture in its .map slot (NoRes when absent)
    thrower,      \* the resource whose dispose() throws (NoRes when none does)
    disposer,     \* the disposer that ran last ("none" before the first call)
    disposeLog,   \* the resources dispose() was called on, in order
    threw,        \* the last disposer call threw to its caller
    calls,        \* number of disposer calls made
    \* ---- configuration ----
    transform,    \* the node's position, scale and rotation
    matProps,     \* material -> its own properties (Absent where it has none)
    frozen,       \* the property names whose assignment throws
    cfgOp,        \* the configurator call made: its name and arguments
    cfgThrew,     \* the configurator call threw to its caller
    \* ---- scene host ----
    host,         \* which host component (or hook) is followed
    hpc,          \* "idle", "mounted" or "unmounted"
    mounts,       \* how many times the host has been mounted
    hasCleanup,   \* the effect of this mount returned its cleanup function
    loads,        \* load -> "none", "pending", "ok" or "failed", for this mount
    hError,       \* the host's error state
    hProgress,    \* the host's loadingProgress state
    hLoading,     \* the host's loading state (ModelShowcase)
    hModel,       \* the loads whose node is held in the host's model / room / maid state
    refs,         \* the loads whose node is held in modelRef / roomRef / maidRef
    scene,        \* the nodes added to the host's scene, in order
    listeners,    \* the listeners registered on window
    contexts,     \* the renderers created and not disposed
    traversed,    \* the loads whose node the unmount cleanup traversed
    frames,       \* the frames of this mount on which the host's frame callback ran
    frameErr,     \* what became of an error in the last frame callback
    maidPosition, \* where the maid node stands: "origin" or "beside" the room
    \* ---- texture transcoder ----
    detectedOn,   \* the renderer handed to ktx2Loader.detectSupport before the load
    \* ---- scrolling ----
    scrollY,        \* window.scrollY
    scrollHeight,   \* document.documentElement.scrollHeight
    innerHeight,    \* window.innerHeight
    scrollProgress, \* the scrollProgress state of useScrollAnimation
    cubeScroll,     \* the scrollProgress the ScrollScene frame callback rotated the cube by
    \* ---- booking form ----
    bookingValues,   \* the six field values
    bookingErrors,   \* field -> "", "required" or "invalid"
    bookingSuccess,  \* the success message is set
    bookingInFlight, \* submissions waiting for the simulated request
    bookingSubmits,  \* submit events handled
    \* ---- contact form ----
    formValues,      \* name, email and message
    formErrors,      \* field -> "", "required" or "invalid"
    successMessage,  \* the success message is set
    errorMessage,    \* the error message is set
    isSubmitting,
    isLoading,
    sendsInFlight,   \* emailjs.sendForm calls that have not settled
    sendsSettled,    \* some send has settled since the component mounted
    lastSubmit,      \* what the last submit event did: "none", "busy", "invalid", "sent"
    \* ---- animation hook ----
    animObject,      \* the object passed to use3DAnimation, "null" for null
    animMounted,     \* the hook's component is mounted
    runs,            \* how many times the hook's effect has run
    mixerRef,        \* the mixer in mixerRef.current, NoMixer for null
    clipsRef,        \* the object whose clips are in clipsRef.current, "none" when empty
    actionsRef,      \* the object whose actions are in actionsRef.current
    isInitialized,
    cleanupFor,      \* the object captured by the pending effect cleanup, "none" if none
    unreleased       \* the mixers created and never passed to uncacheRoot

loadVars == <<argPath, entry, assetType, phase, loadCalls, failure, loaderError, reported>>
dispVars == <<node, mapOf, thrower, disposer, disposeLog, threw, calls>>
cfgVars  == <<transform, matProps, frozen, cfgOp, cfgThrew>>
hostVars == <<host, hpc, mounts, hasCleanup, loads, hError, hProgress, hLoading, hModel,
              refs, scene, listeners, contexts, traversed, frames, frameErr, maidPosition>>
scrollVars == <<scrollY, scrollHeight, innerHeight, scrollProgress, cubeScroll>>
bookingVars == <<bookingValues, bookingErrors, bookingSuccess, bookingInFlight,
                 bookingSubmits>>
contactVars == <<formValues, formErrors, successMessage, errorMessage, isSubmitting,
                 isLoading, sendsInFlight, sendsSettled, lastSubmit>>
animVars == <<animObject, animMounted, runs, mixerRef, clipsRef, actionsRef,
              isInitialized, cleanupFor, unreleased>>
vars == <<loadVars, dispVars, cfgVars, hostVars, detectedOn, scrollVars, bookingVars,
          contactVars, animVars>>

\* what the actions of one part leave alone
notLoadVars == <<dispVars, cfgVars, hostVars, scrollVars, bookingVars,
                 contactVars, animVars>>
notDispVars == <<loadVars, cfgVars, hostVars, detectedOn, scrollVars, bookingVars,
                 contactVars, animVars>>
notCfgVars  == <<loadVars, disposer, disposeLog, threw, calls, mapOf, thrower, hostVars,
                 detectedOn, scrollVars, bookingVars, contactVars, animVars>>
notHostVars == <<loadVars, dispVars, cfgVars, scrollVars, bookingVars,
                 contactVars, animVars>>
notScrollVars == <<loadVars, dispVars, cfgVars, hostVars, detectedOn, bookingVars,
                 contactVars, animVars>>
notBookingVars == <<loadVars, dispVars, cfgVars, hostVars, detectedOn, scrollVars,
                    contactVars, animVars>>
notAnimVars == <<loadVars, dispVars, cfgVars, hostVars, detectedOn, scrollVars,
                 bookingVars, contactVars>>
notContactVars == <<loadVars, dispVars, cfgVars, hostVars, detectedOn, scrollVars,
                    bookingVars, animVars>>

\* ------------------------------------------------------------------ bounds
MaxLen    == 3    \* longest caller-supplied path
MaxEvents == 2    \* progress events delivered within one load
MaxBytes  == 1    \* largest loaded / total byte count of a progress event
MaxNodes  == 2    \* objects in the node's hierarchy (root included)
MaxArr    == 2    \* longest material array of a mesh
MaxCalls  == 2    \* disposer calls on the same node
MaxMounts == 2    \* mounts of the followed host
MaxFrames == 2    \* frames rendered during one mount
MaxScroll == 2    \* largest scroll offset and height, in pixels
MaxSubmits == 2   \* submit events of one form
MaxRuns == 4      \* runs of the animation hook's effect

\* ------------------------------------------------------------------ paths
Lower == {"a","b","c","d","e","f","g","h","i","j","k","l","m",
          "n","o","p","q","r","s","t","u","v","w","x","y","z"}
Upper == {"A","B","C","D","E","F","G","H","I","J","K","L","M",
          "N","O","P","Q","R","S","T","U","V","W","X","Y","Z"}
Digit == {"0","1","2","3","4","5","6","7","8","9"}

\* the character class of the sanitizing regular expression, [a-zA-Z0-9/._-]
AllowedChars == Lower \cup Upper \cup Digit \cup {"/", ".", "_", "-"}

\* the characters the modelled callers build their paths from
Alphabet == {"a", ".", "/", "!"}

RECURSIVE SeqsUpTo(_, _)
SeqsUpTo(S, n) ==
    IF n = 0 THEN {<<>>}
    ELSE LET shorter == SeqsUpTo(S, n - 1)
         IN  shorter \cup {Append(s, c) : s \in {t \in shorter : Len(t) = n - 1}, c \in S}

Paths == SeqsUpTo(Alphabet, MaxLen)

\* '/models/maid-model.glb'
DefaultModelPath ==
    <<"/","m","o","d","e","l","s","/","m","a","i","d","-","m","o","d","e","l",".","g","l","b">>

\* path.startsWith('.')
StartsWithDot(p) == Len(p) > 0 /\ p[1] = "."

\* path.includes('..')
IncludesDotDot(p) == \E i \in 1..(Len(p) - 1) : p[i] = "." /\ p[i + 1] = "."

\* path.replace(/[^a-zA-Z0-9/._-]/g, ''), with only the first match replaced
RECURSIVE StripFirstOnly(_)
StripFirstOnly(p) ==
    IF p = <<>> THEN <<>>
    ELSE IF Head(p) \in AllowedChars THEN <<Head(p)>> \o StripFirstOnly(Tail(p))
         ELSE Tail(p)

\* path.replace(/[^a-zA-Z0-9/._-]/g, ''): every match of the negated class is dropped
RECURSIVE Sanitize(_)
Sanitize(p) ==
    IF p = <<>> THEN <<>>
    ELSE IF Head(p) \in AllowedChars THEN <<Head(p)>> \o Sanitize(Tail(p))
         ELSE Sanitize(Tail(p))

\* `!path` and the two guards that follow it
IsEmptyPath(p) == p = <<>>
IsTraversal(p) == StartsWithDot(p) \/ IncludesDotDot(p)

\* ------------------------------------------------------------------ errors
NoPath    == <<"<no path>">>
NoFailure == [kind |-> "none", path |-> NoPath, cause |-> "none"]
Causes    == {"404", "decode"}

\* ------------------------------------------------------------------ progress
\* (xhr.loaded / xhr.total) * 100 as an exact ratio; x/0 is Infinity, 0/0 is NaN
Progress(loaded, total) ==
    IF total = 0
    THEN IF loaded = 0 THEN [kind |-> "NaN", n |-> 0, d |-> 1]
                       ELSE [kind |-> "Infinity", n |-> 1, d |-> 0]
    ELSE [kind |-> "number", n |-> loaded * 100, d |-> total]

\* p >= q for two progress values (any comparison with NaN is false)
Geq(p, q) ==
    CASE p.kind = "NaN" \/ q.kind = "NaN" -> FALSE
      [] p.kind = "Infinity"              -> TRUE
      [] q.kind = "Infinity"              -> FALSE
      [] OTHER                            -> p.n * q.d >= q.n * p.d

\* 0 <= p <= 100
InRange(p) == p.kind = "number" /\ p.n >= 0 /\ p.n <= 100 * p.d

\* ------------------------------------------------------------------ loading
\* loadAsset's two guards: the message of the Error it throws, "none" when it passes
ValidationError(p) ==
    IF IsEmptyPath(p) THEN "empty"
    ELSE IF IsTraversal(p) THEN "traversal"
    ELSE "none"

\* modelPath || '/models/maid-model.glb'
ShowcasePath(p) == IF p = <<>> THEN DefaultModelPath ELSE p

\* an absent geometry, material or map
NoRes    == "none"
\* a null node has no objects; a present node has at least its root
NullNode == <<>>

\* the disposal state while only a load is being followed
NoDisposal ==
    /\ node = NullNode
    /\ mapOf = [m \in {"m1", "m2"} |-> NoRes]
    /\ thrower = NoRes
    /\ disposer = "none"
    /\ disposeLog = <<>>
    /\ threw = FALSE
    /\ calls = 0

\* the loading state while only a disposal is being followed
NoLoad ==
    /\ argPath = <<>>
    /\ entry = "none"
    /\ assetType = "none"
    /\ phase = "idle"
    /\ loadCalls = <<>>
    /\ failure = NoFailure
    /\ loaderError = "none"
    /\ reported = <<>>

\* ---- values of the configurator
Absent       == "absent"
Vals         == {"v1"}
Keys         == {"k1", "k2"}
\* the order in which `for (const key in materialProperties)` visits the keys
KeySeq       == <<"k1", "k2">>
TransformFields == {"position", "scale", "rotation"}
NoArgs       == [f \in TransformFields |-> Absent]
NoOverrides  == [k \in Keys |-> Absent]
NoCall       == [op |-> "none", args |-> NoArgs, props |-> NoOverrides]
InitialTransform == [f \in TransformFields |-> "v0"]

\* ---- values of the scene hosts
Hosts == {"ThreeScene", "ScrollScene", "AdvancedScene", "RoomScene", "ModelLoader",
          "ModelShowcase", "useScrollAnimation"}
LoadNames == {"room", "maid"}
PathOf(l) == IF l = "room" THEN "/models/room.glb" ELSE "/models/maid-model.glb"
NoError         == [kind |-> "none", path |-> ""]
InitError       == [kind |-> "init", path |-> ""]
LoadFailed(l)   == [kind |-> "load", path |-> PathOf(l)]
InitialProgress == [kind |-> "number", n |-> 0, d |-> 1]
NoLoads         == [l \in LoadNames |-> "none"]
\* no detectSupport call was made
NoDetection     == [gen |-> 0, role |-> "none"]

\* the state of a host before its first mount
Unmounted(h) ==
    /\ host = h
    /\ hpc = "idle"
    /\ mounts = 0
    /\ hasCleanup = FALSE
    /\ loads = NoLoads
    /\ hError = NoError
    /\ hProgress = InitialProgress
    /\ hLoading = (h = "ModelShowcase")
    /\ hModel = {}
    /\ refs = {}
    /\ scene = <<>>
    /\ listeners = {}
    /\ contexts = {}
    /\ traversed = {}
    /\ frames = 0
    /\ frameErr = "none"
    /\ maidPosition = "origin"
    /\ detectedOn = NoDetection

\* the host state while no host is being followed
NoHost == Unmounted("none")

\* the renderer the cleanup disposes: ModelLoader replaces the one made at render by
\* one made in the effect, the other hosts keep the one made at the first render
HeldRenderer(h) == IF h = "ModelLoader" THEN "effect" ELSE "ref"

\* the renderer a host hands to ktx2Loader.detectSupport when it sets up its loader:
\* AdvancedScene and ModelLoader pass the renderer of rendererRef, RoomScene and
\* ModelShowcase configure no texture transcoder
DetectionOf(h, gen) ==
    IF h \in {"AdvancedScene", "ModelLoader"}
    THEN [gen |-> gen, role |-> HeldRenderer(h)]
    ELSE NoDetection

\* ---- values of the scroll position
\* the number 0, the initial scrollProgress
Zero == [kind |-> "number", n |-> 0, d |-> 1]

\* the scroll state while no scrolling is being followed
NoScroll ==
    /\ scrollY = 0
    /\ scrollHeight = 0
    /\ innerHeight = 0
    /\ scrollProgress = Zero
    /\ cubeScroll = Zero

\* ---- values of the booking form
BookingFields == {"serviceType", "preferredDate", "timeSlot", "name", "email", "phone"}
\* the empty string
Empty == <<>>
\* const initialValues
InitialValues == [f \in BookingFields |-> Empty]
NoErrors == [f \in BookingFields |-> ""]

\* the booking form before any input
FreshBooking ==
    /\ bookingValues = InitialValues
    /\ bookingErrors = NoErrors
    /\ bookingSuccess = FALSE
    /\ bookingInFlight = 0
    /\ bookingSubmits = 0

\* ---- values of the contact form
ContactFields == {"name", "email", "message"}
NoContactErrors == [f \in ContactFields |-> ""]

\* the contact form before any input
FreshContact ==
    /\ formValues = [f \in ContactFields |-> Empty]
    /\ formErrors = NoContactErrors
    /\ successMessage = FALSE
    /\ errorMessage = FALSE
    /\ isSubmitting = FALSE
    /\ isLoading = FALSE
    /\ sendsInFlight = 0
    /\ sendsSettled = FALSE
    /\ lastSubmit = "none"

\* ---- values of the animation hook
NoMixer == [root |-> "none", run |-> 0]

\* the hook before its first effect
FreshAnimation ==
    /\ animObject = "null"
    /\ animMounted = FALSE
    /\ runs = 0
    /\ mixerRef = NoMixer
    /\ clipsRef = "none"
    /\ actionsRef = "none"
    /\ isInitialized = FALSE
    /\ cleanupFor = "none"
    /\ unreleased = {}

\* the configuration state while no configurator is being followed
NoConfigure ==
    /\ transform = InitialTransform
    /\ matProps = [m \in {"m1", "m2"} |-> NoOverrides]
    /\ frozen = {}
    /\ cfgOp = NoCall
    /\ cfgThrew = FALSE

InitLoad ==
    /\ FreshAnimation
    /\ FreshContact
    /\ FreshBooking
    /\ NoScroll
    /\ NoDisposal
    /\ NoConfigure
    /\ NoHost
    /\ argPath \in Paths
    /\ entry = "none"
    /\ assetType = "none"
    /\ phase = "idle"
    /\ loadCalls = <<>>
    /\ failure = NoFailure
    /\ loaderError = "none"
    /\ reported = <<>>

\* loadAsset(assetPath, assetType, onProgress): validate, sanitize, dispatch by type
LoadAsset(t) ==
    /\ phase = "idle"
    /\ entry' = "loadAsset"
    /\ assetType' = t
    /\ IF ValidationError(argPath) # "none"
       THEN /\ phase' = "rejected"
            /\ failure' = [kind |-> "invalid", path |-> NoPath,
                           cause |-> ValidationError(argPath)]
            /\ UNCHANGED loadCalls
       ELSE IF t \in {"gltf", "texture"}
       THEN /\ phase' = "pending"
            /\ loadCalls' = Append(loadCalls, Sanitize(argPath))
            /\ UNCHANGED failure
       ELSE /\ phase' = "rejected"
            /\ failure' = [kind |-> "unsupported", path |-> argPath, cause |-> "none"]
            /\ UNCHANGED loadCalls
    /\ UNCHANGED <<argPath, loaderError, reported>>
    /\ detectedOn' = IF ValidationError(argPath) = "none" /\ t = "gltf"
                     THEN [gen |-> 0, role |-> "detect"] ELSE detectedOn
    /\ UNCHANGED notLoadVars

\* loadSampleModel(modelPath): validate, sanitize, then await loadAsset(sanitized, 'gltf');
\* an Error thrown by loadAsset's own guards is caught and rethrown with its message
LoadSampleModel ==
    /\ phase = "idle"
    /\ entry' = "loadSampleModel"
    /\ assetType' = "gltf"
    /\ IF ValidationError(argPath) # "none"
       THEN /\ phase' = "rejected"
            /\ failure' = [kind |-> "invalid", path |-> NoPath,
                           cause |-> ValidationError(argPath)]
            /\ UNCHANGED loadCalls
       ELSE LET sanitizedModelPath == Sanitize(argPath)
            IN  IF ValidationError(sanitizedModelPath) # "none"
                THEN /\ phase' = "rejected"
                     /\ failure' = [kind |-> "load", path |-> argPath,
                                    cause |-> ValidationError(sanitizedModelPath)]
                     /\ UNCHANGED loadCalls
                ELSE /\ phase' = "pending"
                     /\ loadCalls' = Append(loadCalls, Sanitize(sanitizedModelPath))
                     /\ UNCHANGED failure
    /\ UNCHANGED <<argPath, loaderError, reported>>
    /\ detectedOn' = IF ValidationError(argPath) = "none"
                          /\ ValidationError(Sanitize(argPath)) = "none"
                     THEN [gen |-> 0, role |-> "detect"] ELSE detectedOn
    /\ UNCHANGED notLoadVars

\* ModelLoader.loadModel(modelPath): the guards set the error state and return
LoadModel ==
    /\ phase = "idle"
    /\ entry' = "loadModel"
    /\ assetType' = "gltf"
    /\ IF ValidationError(argPath) # "none"
       THEN /\ phase' = "rejected"
            /\ failure' = [kind |-> "invalid", path |-> NoPath,
                           cause |-> ValidationError(argPath)]
            /\ UNCHANGED loadCalls
       ELSE /\ phase' = "pending"
            /\ loadCalls' = Append(loadCalls, Sanitize(argPath))
            /\ UNCHANGED failure
    /\ UNCHANGED <<argPath, loaderError, reported>>
    /\ detectedOn' = IF ValidationError(argPath) = "none"
                     THEN [gen |-> mounts, role |-> HeldRenderer("ModelLoader")]
                     ELSE detectedOn
    /\ UNCHANGED notLoadVars

\* ModelShowcase effect: loadGLTFModel(modelPath || default) sanitizes and loads, no guard
ModelShowcaseLoad ==
    /\ phase = "idle"
    /\ entry' = "ModelShowcase"
    /\ assetType' = "gltf"
    /\ phase' = "pending"
    /\ failure' = NoFailure
    /\ loadCalls' = Append(loadCalls, Sanitize(ShowcasePath(argPath)))
    /\ UNCHANGED <<argPath, loaderError, reported>>
    /\ UNCHANGED detectedOn
    /\ UNCHANGED notLoadVars

\* the loader's progress callback: progress = (xhr.loaded / xhr.total) * 100 is passed on
\* (ModelShowcase's callback is empty)
ProgressEvent(loaded, total) ==
    /\ phase = "pending"
    /\ entry # "ModelShowcase"
    /\ Len(reported) < MaxEvents
    /\ reported' = Append(reported, Progress(loaded, total))
    /\ UNCHANGED <<argPath, entry, assetType, phase, loadCalls, failure, loaderError>>
    /\ UNCHANGED detectedOn
    /\ UNCHANGED notLoadVars

\* the loader's success callback
LoadSuccess ==
    /\ phase = "pending"
    /\ phase' = "resolved"
    /\ UNCHANGED <<argPath, entry, assetType, loadCalls, failure, loaderError, reported>>
    /\ UNCHANGED detectedOn
    /\ UNCHANGED notLoadVars

\* what each entry point delivers when the loader's error callback fires with `cause`:
\* loadAsset rejects with a string naming assetPath (the cause is only logged);
\* loadSampleModel rethrows `...${modelPath}: ${error.message}` where error is that string
ErrorDelivered(e, cause) ==
    CASE e = "loadAsset"       -> [kind |-> "load", path |-> argPath, cause |-> "none"]
      [] e = "loadSampleModel" -> [kind |-> "load", path |-> argPath, cause |-> "undefined"]
      [] e = "loadModel"       -> [kind |-> "load", path |-> argPath, cause |-> "none"]
      [] OTHER                 -> [kind |-> "load", path |-> ShowcasePath(argPath),
                                   cause |-> "none"]

\* the loader's error callback
LoadError(cause) ==
    /\ phase = "pending"
    /\ phase' = "failed"
    /\ loaderError' = cause
    /\ failure' = ErrorDelivered(entry, cause)
    /\ UNCHANGED <<argPath, entry, assetType, loadCalls, reported>>
    /\ UNCHANGED detectedOn
    /\ UNCHANGED notLoadVars

NextLoad ==
    \/ \E t \in {"gltf", "texture", "other"} : LoadAsset(t)
    \/ LoadSampleModel
    \/ LoadModel
    \/ ModelShowcaseLoad
    \/ \E loaded \in 0..MaxBytes, total \in 0..MaxBytes : ProgressEvent(loaded, total)
    \/ LoadSuccess
    \/ \E cause \in Causes : LoadError(cause)

SpecLoad == InitLoad /\ [][NextLoad]_vars

\* ------------------------------------------------------------------ disposal

Geometries == {"g1"}
Materials  == {"m1", "m2"}
Textures   == {"t1"}
Resources  == Geometries \cup Materials \cup Textures

\* mesh.material: absent, one material, or an array of materials
NoMaterial     == [kind |-> "none", mats |-> <<>>]
SingleMat(m)   == [kind |-> "single", mats |-> <<m>>]
MatArray(a)    == [kind |-> "array", mats |-> a]
MaterialValues ==
    {NoMaterial} \cup {SingleMat(m) : m \in Materials}
                 \cup {MatArray(a) : a \in SeqsUpTo(Materials, MaxArr)}

\* the objects of a hierarchy: meshes (geometry and material possibly absent) and others
NonMesh == [isMesh |-> FALSE, geometry |-> NoRes, material |-> NoMaterial]
Objects ==
    {NonMesh} \cup {[isMesh |-> TRUE, geometry |-> g, material |-> mv] :
                        g \in Geometries \cup {NoRes}, mv \in MaterialValues}

\* a node is null or its objects in the order traverse() visits them, root first
Nodes == {NullNode} \cup (SeqsUpTo(Objects, MaxNodes) \ {<<>>})

\* ---- outcome of a run of calls: the dispose() calls made, and whether it ended normally
Skip       == [log |-> <<>>, ok |-> TRUE]
TypeError  == [log |-> <<>>, ok |-> FALSE]
\* r.dispose()
Call(r)    == [log |-> <<r>>, ok |-> r # thrower]
\* a; b
Then(a, b) == IF a.ok THEN [log |-> a.log \o b.log, ok |-> b.ok] ELSE a
\* try { a } catch { log }
Caught(a)  == [log |-> a.log, ok |-> TRUE]

\* ---- modelManager.ts
\* disposeMaterial with the two releases in the other order
MaterialBeforeTexture(mat) ==
    Then(Call(mat), IF mapOf[mat] # NoRes THEN Call(mapOf[mat]) ELSE Skip)

\* disposeMaterial(material): the map texture, if any, then the material; no try/catch
DisposeMaterial(mat) ==
    Then(IF mapOf[mat] # NoRes THEN Call(mapOf[mat]) ELSE Skip, Call(mat))

\* material.forEach((mat) => disposeMaterial(mat))
RECURSIVE ForEachMaterial(_)
ForEachMaterial(mats) ==
    IF mats = <<>> THEN Skip
    ELSE Then(DisposeMaterial(Head(mats)), ForEachMaterial(Tail(mats)))

\* the traverse callback of disposeModel
DisposeChild(child) ==
    IF child.isMesh
    THEN Then(IF child.geometry # NoRes THEN Call(child.geometry) ELSE Skip,
              CASE child.material.kind = "none"  -> Skip
                [] child.material.kind = "array" -> ForEachMaterial(child.material.mats)
                [] OTHER                         -> DisposeMaterial(child.material.mats[1]))
    ELSE Skip

\* model.traverse(callback)
RECURSIVE Traverse(_)
Traverse(objs) ==
    IF objs = <<>> THEN Skip
    ELSE Then(DisposeChild(Head(objs)), Traverse(Tail(objs)))

\* disposeModel without the null guard and with the traversal outside the try
DisposeModelUnguarded(model) ==
    IF model = NullNode THEN TypeError ELSE Caught(Traverse(model))

\* disposeModel with the traversal outside any try/catch
DisposeModelUncaught(model) ==
    IF model = NullNode THEN Skip ELSE Traverse(model)

\* disposeModel(model): null guard, then the whole traversal inside one try/catch
DisposeModelRun(model) ==
    IF model = NullNode THEN Skip ELSE Caught(Traverse(model))

\* ---- three-helpers.ts
\* disposeMaterial(material): as above but inside its own try/catch
DisposeMaterialH(mat) ==
    Caught(Then(IF mapOf[mat] # NoRes THEN Call(mapOf[mat]) ELSE Skip, Call(mat)))

RECURSIVE ForEachMaterialH(_)
ForEachMaterialH(mats) ==
    IF mats = <<>> THEN Skip
    ELSE Then(DisposeMaterialH(Head(mats)), ForEachMaterialH(Tail(mats)))

\* disposeMesh(mesh): null guard, geometry then material(s) inside one try/catch
DisposeMeshRun(mesh) ==
    IF mesh = NullNode THEN Skip
    ELSE Caught(Then(IF mesh[1].geometry # NoRes THEN Call(mesh[1].geometry) ELSE Skip,
                     CASE mesh[1].material.kind = "none"  -> Skip
                       [] mesh[1].material.kind = "array" ->
                              ForEachMaterialH(mesh[1].material.mats)
                       [] OTHER -> DisposeMaterialH(mesh[1].material.mats[1])))

\* ---- the traversal of the hosts' unmount cleanup (AdvancedScene, RoomScene, ModelLoader)
\* child.geometry.dispose(); if (child.material.map) child.material.map.dispose();
\* child.material.dispose() -- no guard on geometry or material, no try/catch; on an
\* array, .map is Array.prototype.map, which has no dispose
CleanupChild(child) ==
    IF child.isMesh
    THEN Then(IF child.geometry # NoRes THEN Call(child.geometry) ELSE TypeError,
              CASE child.material.kind = "single" ->
                       Then(IF mapOf[child.material.mats[1]] # NoRes
                            THEN Call(mapOf[child.material.mats[1]]) ELSE Skip,
                            Call(child.material.mats[1]))
                [] OTHER -> TypeError)
    ELSE Skip

RECURSIVE CleanupEach(_)
CleanupEach(objs) ==
    IF objs = <<>> THEN Skip
    ELSE Then(CleanupChild(Head(objs)), CleanupEach(Tail(objs)))

\* if (modelRef.current) { modelRef.current.traverse(...) }
CleanupTraverseRun(model) ==
    IF model = NullNode THEN Skip ELSE CleanupEach(model)

InitDispose ==
    /\ FreshAnimation
    /\ FreshContact
    /\ FreshBooking
    /\ NoScroll
    /\ NoLoad
    /\ NoConfigure
    /\ NoHost
    /\ node \in Nodes
    /\ mapOf \in [Materials -> Textures \cup {NoRes}]
    /\ thrower \in Resources \cup {NoRes}
    /\ disposer = "none"
    /\ disposeLog = <<>>
    /\ threw = FALSE
    /\ calls = 0

\* one call of disposer d whose run is r, on the same node as any earlier call
Disposed(d, r) ==
    /\ calls < MaxCalls
    /\ disposer \in {"none", d}
    /\ disposer' = d
    /\ calls' = calls + 1
    /\ disposeLog' = disposeLog \o r.log
    /\ threw' = ~r.ok
    /\ UNCHANGED <<node, mapOf, thrower>>
    /\ UNCHANGED notDispVars

DisposeModel    == Disposed("disposeModel", DisposeModelRun(node))
DisposeMesh     == Disposed("disposeMesh", DisposeMeshRun(node))
CleanupTraverse == Disposed("cleanup", CleanupTraverseRun(node))

NextDispose == DisposeModel \/ DisposeMesh \/ CleanupTraverse

SpecDispose == InitDispose /\ [][NextDispose]_vars

\* ------------------------------------------------------------------ configuration
\* the nodes handed to the configurators (geometry plays no part in them)
CfgObjects == {o \in Objects : o.geometry = NoRes}
CfgNodes   == {NullNode} \cup (SeqsUpTo(CfgObjects, MaxNodes) \ {<<>>})

InitConfigure ==
    /\ FreshAnimation
    /\ FreshContact
    /\ FreshBooking
    /\ NoScroll
    /\ NoLoad
    /\ NoHost
    /\ node \in CfgNodes
    /\ mapOf = [m \in Materials |-> NoRes]
    /\ thrower = NoRes
    /\ disposer = "none"
    /\ disposeLog = <<>>
    /\ threw = FALSE
    /\ calls = 0
    /\ transform = InitialTransform
    /\ matProps \in [Materials -> [Keys -> {Absent, "v0"}]]
    /\ frozen \in {{}} \cup {{k} : k \in Keys}
    /\ cfgOp = NoCall
    /\ cfgThrew = FALSE

\* the three `if (x) model.x.copy(x)` with the guard on rotation left out
CopyRotationUnguarded(t, args) ==
    [f \in TransformFields |->
        IF f = "rotation" THEN args[f]
        ELSE IF args[f] # Absent THEN args[f] ELSE t[f]]

\* if (position) model.position.copy(position); likewise scale and rotation
CopySupplied(t, args) ==
    [f \in TransformFields |-> IF args[f] # Absent THEN args[f] ELSE t[f]]

\* setupModelProperties(model, position?, scale?, rotation?)
SetupModelProperties(args) ==
    /\ cfgOp.op = "none"
    /\ cfgOp' = [op |-> "setup", args |-> args, props |-> NoOverrides]
    /\ IF node = NullNode
       THEN /\ cfgThrew' = TRUE
            /\ UNCHANGED transform
       ELSE /\ cfgThrew' = FALSE
            /\ transform' = CopySupplied(transform, args)
    /\ UNCHANGED <<node, matProps, frozen>>
    /\ UNCHANGED notCfgVars

\* the key loop that gives up at the first key the material lacks
RECURSIVE ApplyKeysUntilMissing(_, _, _)
ApplyKeysUntilMissing(own, props, keys) ==
    IF keys = <<>> THEN own
    ELSE LET key == Head(keys)
         IN  IF props[key] = Absent
             THEN ApplyKeysUntilMissing(own, props, Tail(keys))
             ELSE IF own[key] = Absent THEN own
             ELSE ApplyKeysUntilMissing(
                      IF key \in frozen THEN own ELSE [own EXCEPT ![key] = props[key]],
                      props, Tail(keys))

\* for (const key in materialProperties): a key the material owns is assigned inside its
\* own try/catch (an assignment that throws is skipped), any other key is skipped
RECURSIVE ApplyKeys(_, _, _)
ApplyKeys(own, props, keys) ==
    IF keys = <<>> THEN own
    ELSE LET key == Head(keys)
         IN  IF props[key] = Absent
             THEN ApplyKeys(own, props, Tail(keys))
             ELSE IF own[key] = Absent
             THEN ApplyKeys(own, props, Tail(keys))
             ELSE ApplyKeys(IF key \in frozen THEN own ELSE [own EXCEPT ![key] = props[key]],
                            props, Tail(keys))

\* material.forEach((mat) => { for (const key in materialProperties) ... })
RECURSIVE ConfigureMats(_, _, _)
ConfigureMats(mp, mats, props) ==
    IF mats = <<>> THEN mp
    ELSE ConfigureMats([mp EXCEPT ![Head(mats)] = ApplyKeys(mp[Head(mats)], props, KeySeq)],
                       Tail(mats), props)

\* model.traverse: every mesh that has a material, its material or array of materials
RECURSIVE ConfigureEach(_, _, _)
ConfigureEach(mp, objs, props) ==
    IF objs = <<>> THEN mp
    ELSE ConfigureEach(
             IF Head(objs).isMesh /\ Head(objs).material.kind # "none"
             THEN ConfigureMats(mp, Head(objs).material.mats, props) ELSE mp,
             Tail(objs), props)

\* configureModelMaterial(model, materialProperties)
ConfigureModelMaterial(props) ==
    /\ cfgOp.op = "none"
    /\ cfgOp' = [op |-> "configure", args |-> NoArgs, props |-> props]
    /\ IF node = NullNode
       THEN /\ cfgThrew' = TRUE
            /\ UNCHANGED matProps
       ELSE /\ cfgThrew' = FALSE
            /\ matProps' = ConfigureEach(matProps, node, props)
    /\ UNCHANGED <<node, transform, frozen>>
    /\ UNCHANGED notCfgVars

NextConfigure ==
    \/ \E args \in [TransformFields -> Vals \cup {Absent}] : SetupModelProperties(args)
    \/ \E props \in [Keys -> Vals \cup {Absent}] : ConfigureModelMaterial(props)

SpecConfigure == InitConfigure /\ [][NextConfigure]_vars

\* ------------------------------------------------------------------ scene hosts
\* the loads a host requests when it mounts
HostLoads(h) ==
    CASE h = "AdvancedScene" -> {"room"}
      [] h = "RoomScene"     -> {"room", "maid"}
      [] h = "ModelLoader"   -> {"maid"}
      [] h = "ModelShowcase" -> {"maid"}
      [] OTHER               -> {}

\* the window event a host listens to
ListenerEvent(h) ==
    CASE h \in {"ThreeScene", "ScrollScene", "AdvancedScene", "RoomScene"} -> "resize"
      [] h = "useScrollAnimation" -> "scroll"
      [] OTHER -> "none"

\* useRef(new THREE.WebGLRenderer(...)): a renderer is constructed on every render
RendererAtRender(h) ==
    h \in {"ThreeScene", "ScrollScene", "AdvancedScene", "RoomScene", "ModelLoader"}

\* the hosts that keep React state, so that a state change renders them again
HasState(h) == h \in {"RoomScene", "ModelLoader", "ModelShowcase"}

\* where the try block of the mount effect can throw: nowhere, before the load is
\* requested, or after it (AdvancedScene builds its composer and controls after it)
InitFailures(h) ==
    CASE h \in {"ThreeScene", "ScrollScene", "RoomScene"} -> {"none", "early"}
      [] h = "AdvancedScene" -> {"none", "early", "late"}
      [] OTHER -> {"none"}

\* a state change of a mounted host renders it again
RenderAgain(ctx, changed) ==
    IF changed /\ hpc = "mounted" /\ HasState(host) /\ RendererAtRender(host)
    THEN ctx \cup {[gen |-> mounts, role |-> "rerender"]}
    ELSE ctx

\* loadingProgress < 100 (false for NaN and for Infinity)
Below100(p) == p.kind = "number" /\ p.n < 100 * p.d

\* what the host's render shows
DisplayOf(h, pc, err, prog, loading, held) ==
    CASE pc = "idle" -> "Idle"
      [] h = "ModelShowcase" ->
             IF err # NoError THEN "Error" ELSE IF loading THEN "Loading" ELSE "Ready"
      [] h \in {"RoomScene", "ModelLoader"} ->
             IF err # NoError THEN "Error" ELSE IF Below100(prog) THEN "Loading" ELSE "Ready"
      [] h = "AdvancedScene" -> IF held # {} THEN "Ready" ELSE "Loading"
      [] OTHER -> "Ready"

DisplayState == DisplayOf(host, hpc, hError, hProgress, hLoading, refs)

InitHost ==
    /\ FreshAnimation
    /\ FreshContact
    /\ FreshBooking
    /\ NoScroll
    /\ NoLoad
    /\ NoDisposal
    /\ NoConfigure
    /\ \E h \in Hosts : Unmounted(h)

\* window.addEventListener called before the part of the effect that can throw
ListenersRegisteredFirst(initFail) ==
    IF ListenerEvent(host) # "none"
    THEN listeners \cup {[event |-> ListenerEvent(host), gen |-> mounts + 1]}
    ELSE listeners

\* window.addEventListener is the last statement of the try block
ListenersAfterInit(initFail) ==
    IF ListenerEvent(host) # "none" /\ initFail = "none"
    THEN listeners \cup {[event |-> ListenerEvent(host), gen |-> mounts + 1]}
    ELSE listeners

\* first render and mount effect of a new instance of the host
Mount(initFail) ==
    /\ hpc \in {"idle", "unmounted"}
    /\ mounts < MaxMounts
    /\ initFail \in InitFailures(host)
    /\ hpc' = "mounted"
    /\ mounts' = mounts + 1
    /\ hasCleanup' = (initFail = "none" /\ host # "ModelShowcase")
    /\ loads' = [l \in LoadNames |->
                    IF l \in HostLoads(host) /\ initFail # "early" THEN "pending" ELSE "none"]
    /\ hError' = IF host = "RoomScene" /\ initFail # "none" THEN InitError ELSE NoError
    /\ hProgress' = InitialProgress
    /\ hLoading' = FALSE
    /\ hModel' = {}
    /\ refs' = {}
    /\ scene' = <<>>
    /\ traversed' = {}
    /\ listeners' = ListenersAfterInit(initFail)
    /\ contexts' = contexts
          \cup (IF RendererAtRender(host)
                THEN {[gen |-> mounts + 1, role |-> "ref"]} ELSE {})
          \cup (IF host = "ModelLoader"
                THEN {[gen |-> mounts + 1, role |-> "effect"]} ELSE {})
          \cup (IF host = "RoomScene" /\ initFail # "none"
                THEN {[gen |-> mounts + 1, role |-> "rerender"]} ELSE {})
    /\ frames' = 0
    /\ frameErr' = "none"
    /\ maidPosition' = "origin"
    /\ UNCHANGED host
    /\ detectedOn' = IF initFail # "early" THEN DetectionOf(host, mounts + 1) ELSE NoDetection
    /\ UNCHANGED notHostVars

\* the nodes the cleanup traverses; a traversal that throws ends the cleanup
CleanupTraversed(throws) ==
    CASE host = "AdvancedScene" -> refs \cap {"room"}
      [] host = "RoomScene" ->
             IF "room" \in refs /\ throws THEN {"room"} ELSE refs
      [] OTHER -> {}

\* unmount: React runs the cleanup the effect returned, if it returned one
Unmount(throws) ==
    /\ hpc = "mounted"
    /\ hpc' = "unmounted"
    /\ IF hasCleanup
       THEN /\ listeners' = listeners \ {[event |-> ListenerEvent(host), gen |-> mounts]}
            /\ contexts' = IF RendererAtRender(host)
                           THEN contexts \ {[gen |-> mounts, role |-> HeldRenderer(host)]}
                           ELSE contexts
            /\ traversed' = CleanupTraversed(throws)
       ELSE UNCHANGED <<listeners, contexts, traversed>>
    /\ UNCHANGED <<frames, frameErr, host, mounts, hasCleanup, loads, hError, hProgress, hLoading, hModel,
                   refs, scene>>
    /\ UNCHANGED maidPosition
    /\ UNCHANGED detectedOn
    /\ UNCHANGED notHostVars

\* the loader's progress callback of load l: setLoadingProgress((loaded / total) * 100)
OnProgress(l, loaded, total) ==
    /\ host \in {"RoomScene", "ModelLoader"}
    /\ loads[l] = "pending"
    /\ hProgress' = IF hpc = "mounted" THEN Progress(loaded, total) ELSE hProgress
    /\ contexts' = RenderAgain(contexts, Progress(loaded, total) # hProgress)
    /\ UNCHANGED <<frames, frameErr, host, hpc, mounts, hasCleanup, loads, hError, hLoading, hModel, refs,
                   scene, listeners, traversed>>
    /\ UNCHANGED maidPosition
    /\ UNCHANGED detectedOn
    /\ UNCHANGED notHostVars

\* scene.add guarded by the host's error state
AttachNodeUnlessError(l) ==
    IF host \in {"AdvancedScene", "RoomScene"} /\ hError = NoError
    THEN Append(scene, l) ELSE scene

\* scene.add(model) / scene.add(loadedRoom) / scene.add(loadedMaid)
AttachNode(l) ==
    IF host \in {"AdvancedScene", "RoomScene"} THEN Append(scene, l) ELSE scene

\* the maid placed by the room held in React state, which the effect captured as null
PlaceMaidByState ==
    IF "room" \in {} THEN "beside" ELSE "origin"

\* if (roomRef.current) loadedMaid.position.set(-1, 0, 0)
PlaceMaid ==
    IF "room" \in refs THEN "beside" ELSE "origin"

\* the loader's success callback of load l
OnSuccess(l) ==
    /\ loads[l] = "pending"
    /\ loads' = [loads EXCEPT ![l] = "ok"]
    /\ refs' = IF host \in {"AdvancedScene", "RoomScene"} THEN refs \cup {l} ELSE refs
    /\ scene' = AttachNode(l)
    /\ hModel' = IF HasState(host) /\ hpc = "mounted" THEN hModel \cup {l} ELSE hModel
    /\ contexts' = RenderAgain(contexts, TRUE)
    /\ UNCHANGED <<frames, frameErr, host, hpc, mounts, hasCleanup, hError, hProgress, hLoading, listeners,
                   traversed>>
    /\ maidPosition' = IF host = "RoomScene" /\ l = "maid" THEN PlaceMaid ELSE maidPosition
    /\ UNCHANGED detectedOn
    /\ UNCHANGED notHostVars

\* the loader's error callback of load l
OnError(l) ==
    /\ loads[l] = "pending"
    /\ loads' = [loads EXCEPT ![l] = "failed"]
    /\ hError' = IF HasState(host) /\ hpc = "mounted" THEN LoadFailed(l) ELSE hError
    /\ contexts' = RenderAgain(contexts, LoadFailed(l) # hError)
    /\ UNCHANGED <<frames, frameErr, host, hpc, mounts, hasCleanup, hProgress, hLoading, hModel, refs, scene,
                   listeners, traversed>>
    /\ UNCHANGED maidPosition
    /\ UNCHANGED detectedOn
    /\ UNCHANGED notHostVars

\* the hosts that register a frame callback with useFrame
FrameHosts == {"ThreeScene", "ScrollScene", "AdvancedScene", "RoomScene", "ModelShowcase"}

\* the hosts whose frame callback has a body that can throw (the others are empty)
FrameCanThrow(h) == h \in {"ScrollScene", "AdvancedScene", "ModelShowcase"}

\* try { ... } catch (error) { console.error(...) } around the body of the callback;
\* ModelShowcase calls orbitControlsRef.current.update(delta) with no try/catch
FrameOutcome(h, throws) ==
    IF ~throws THEN "none"
    ELSE IF h = "ModelShowcase" THEN "escaped" ELSE "caught"

\* one frame of the render loop: the host's useFrame callback runs
Frame(throws) ==
    /\ hpc = "mounted"
    /\ host \in FrameHosts
    /\ throws => FrameCanThrow(host)
    /\ frames < MaxFrames
    /\ frames' = frames + 1
    /\ frameErr' = FrameOutcome(host, throws)
    /\ UNCHANGED <<host, hpc, mounts, hasCleanup, loads, hError, hProgress, hLoading,
                   hModel, refs, scene, listeners, contexts, traversed>>
    /\ UNCHANGED maidPosition
    /\ UNCHANGED detectedOn
    /\ UNCHANGED notHostVars

NextHost ==
    \/ \E initFail \in {"none", "early", "late"} : Mount(initFail)
    \/ \E throws \in BOOLEAN : Unmount(throws)
    \/ \E l \in LoadNames, loaded \in 0..MaxBytes, total \in 0..MaxBytes :
           OnProgress(l, loaded, total)
    \/ \E l \in LoadNames : OnSuccess(l)
    \/ \E l \in LoadNames : OnError(l)
    \/ \E throws \in BOOLEAN : Frame(throws)

SpecHost == InitHost /\ [][NextHost]_vars

\* ------------------------------------------------------------------ scrolling
\* n / d as JavaScript divides: x/0 is Infinity or -Infinity, 0/0 is NaN
Quotient(n, d) ==
    IF d = 0
    THEN IF n = 0 THEN [kind |-> "NaN", n |-> 0, d |-> 1]
         ELSE IF n > 0 THEN [kind |-> "Infinity", n |-> 1, d |-> 0]
         ELSE [kind |-> "-Infinity", n |-> -1, d |-> 0]
    ELSE IF d > 0 THEN [kind |-> "number", n |-> n, d |-> d]
    ELSE [kind |-> "number", n |-> -n, d |-> -d]

\* Math.max(0, x) on integers
AtLeastZero(x) == IF x < 0 THEN 0 ELSE x

\* Math.max(0, Math.min(1, x)): NaN stays NaN
ClampUnit(x) ==
    CASE x.kind = "NaN"       -> x
      [] x.kind = "Infinity"  -> [kind |-> "number", n |-> 1, d |-> 1]
      [] x.kind = "-Infinity" -> Zero
      [] x.n > x.d            -> [kind |-> "number", n |-> 1, d |-> 1]
      [] x.n < 0              -> Zero
      [] OTHER                -> x

\* handleScroll: validatedScrollY / (validatedScrollHeight - validatedInnerHeight), clamped
HandleScroll(y, h, ih) ==
    ClampUnit(Quotient(AtLeastZero(y), AtLeastZero(h) - AtLeastZero(ih)))

\* ScrollScene useFrame: window.scrollY / (scrollHeight - window.innerHeight)
CubeScrollProgress(y, h, ih) == Quotient(y, h - ih)

\* scrollY can be negative while the page rubber-bands above its top
ScrollPositions == -1..MaxScroll
Heights         == 0..MaxScroll

InitScroll ==
    /\ FreshAnimation
    /\ FreshContact
    /\ FreshBooking
    /\ NoLoad
    /\ NoDisposal
    /\ NoConfigure
    /\ NoHost
    /\ scrollY = 0
    /\ scrollHeight \in Heights
    /\ innerHeight \in Heights
    /\ scrollProgress = Zero
    /\ cubeScroll = Zero

\* the window scrolls to y and the scroll listener of useScrollAnimation runs
Scroll(y) ==
    /\ y # scrollY
    /\ scrollY' = y
    /\ scrollProgress' = HandleScroll(y, scrollHeight, innerHeight)
    /\ UNCHANGED <<scrollHeight, innerHeight, cubeScroll>>
    /\ UNCHANGED notScrollVars

\* the window or the document changes height (no scroll event is fired)
Resize(h, ih) ==
    /\ <<h, ih>> # <<scrollHeight, innerHeight>>
    /\ scrollHeight' = h
    /\ innerHeight' = ih
    /\ UNCHANGED <<scrollY, scrollProgress, cubeScroll>>
    /\ UNCHANGED notScrollVars

\* one frame of ScrollScene: the cube is rotated by scrollProgress * 2 * PI
ScrollFrame ==
    /\ cubeScroll' = CubeScrollProgress(scrollY, scrollHeight, innerHeight)
    /\ UNCHANGED <<scrollY, scrollHeight, innerHeight, scrollProgress>>
    /\ UNCHANGED notScrollVars

NextScroll ==
    \/ \E y \in ScrollPositions : Scroll(y)
    \/ \E h \in Heights, ih \in Heights : Resize(h, ih)
    \/ ScrollFrame

SpecScroll == InitScroll /\ [][NextScroll]_vars

\* ------------------------------------------------------------------ booking form
\* [^\\s@] in a regular expression literal: any character but a backslash, s and @
NotBackslashSAt(c) == c \notin {"\\", "s", "@"}

\* /^[^\\s@]+@[^\\s@]+\\.[^\\s@]+$/ : one or more such characters, @, one or more, a
\* backslash, any one character, one or more
EmailPattern(e) ==
    \E i \in 2..Len(e), k \in 4..Len(e) :
        /\ i + 1 < k
        /\ k + 2 <= Len(e)
        /\ e[i] = "@"
        /\ e[k] = "\\"
        /\ \A j \in 1..(i - 1) : NotBackslashSAt(e[j])
        /\ \A j \in (i + 1)..(k - 1) : NotBackslashSAt(e[j])
        /\ \A j \in (k + 2)..Len(e) : NotBackslashSAt(e[j])

\* /^\\d{10}$/ : a backslash followed by ten letters d
PhonePattern(p) ==
    /\ Len(p) = 11
    /\ p[1] = "\\"
    /\ \A j \in 2..11 : p[j] = "d"

\* the values typed into the plain fields, the email field and the phone field
PlainInputs == {Empty, <<"x">>}
EmailInputs ==
    {Empty,
     <<"a", "@", "b", ".", "c">>,
     <<"a", "@", "b", "\\", ".", "c">>,
     <<"a", " ", "@", "b", "\\", "x", "c">>,
     <<"a", "b">>}
TenDigits  == <<"0", "1", "2", "3", "4", "5", "6", "7", "8", "9">>
PhoneInputs ==
    {Empty,
     TenDigits,
     SubSeq(TenDigits, 1, 9),
     <<"\\", "d", "d", "d", "d", "d", "d", "d", "d", "d", "d">>}
InputsOf(f) ==
    CASE f = "email" -> EmailInputs
      [] f = "phone" -> PhoneInputs
      [] OTHER       -> PlainInputs

\* validate(): the error of each field, "" when it has none
Validate(v) ==
    [f \in BookingFields |->
        IF v[f] = Empty THEN "required"
        ELSE IF f = "email" /\ ~EmailPattern(v[f]) THEN "invalid"
        ELSE IF f = "phone" /\ ~PhonePattern(v[f]) THEN "invalid"
        ELSE ""]

InitBooking ==
    /\ FreshAnimation
    /\ FreshContact
    /\ NoLoad
    /\ NoDisposal
    /\ NoConfigure
    /\ NoHost
    /\ NoScroll
    /\ FreshBooking

\* handleChange: set the field, clear its error
BookingChange(f, value) ==
    /\ bookingValues[f] # value
    /\ bookingValues' = [bookingValues EXCEPT ![f] = value]
    /\ bookingErrors' = [bookingErrors EXCEPT ![f] = ""]
    /\ UNCHANGED <<bookingSuccess, bookingInFlight, bookingSubmits>>
    /\ UNCHANGED notBookingVars

\* handleSubmit up to its await: validate, return when a field is in error
BookingSubmit ==
    /\ bookingSubmits < MaxSubmits
    /\ bookingSubmits' = bookingSubmits + 1
    /\ bookingErrors' = Validate(bookingValues)
    /\ bookingInFlight' = IF Validate(bookingValues) = NoErrors
                          THEN bookingInFlight + 1 ELSE bookingInFlight
    /\ UNCHANGED <<bookingValues, bookingSuccess>>
    /\ UNCHANGED notBookingVars

\* handleSubmit after its await: the one second timer has fired
BookingSubmitted ==
    /\ bookingInFlight > 0
    /\ bookingInFlight' = bookingInFlight - 1
    /\ bookingSuccess' = TRUE
    /\ bookingValues' = InitialValues
    /\ bookingErrors' = NoErrors
    /\ UNCHANGED bookingSubmits
    /\ UNCHANGED notBookingVars

NextBooking ==
    \/ \E f \in BookingFields : \E value \in InputsOf(f) : BookingChange(f, value)
    \/ BookingSubmit
    \/ BookingSubmitted

SpecBooking == InitBooking /\ [][NextBooking]_vars

\* ------------------------------------------------------------------ contact form
\* /^[a-zA-Z\s]*$/
LettersAndSpaces(n) == \A j \in 1..Len(n) : n[j] \in Lower \cup Upper \cup {" "}

\* [^\s@]
NotWhitespaceAt(c) == c \notin {" ", "@"}

\* /^[^\s@]+@[^\s@]+\.[^\s@]+$/
ContactEmailPattern(e) ==
    \E i \in 2..Len(e), k \in 4..Len(e) :
        /\ i + 1 < k
        /\ k + 1 <= Len(e)
        /\ e[i] = "@"
        /\ e[k] = "."
        /\ \A j \in 1..(i - 1) : NotWhitespaceAt(e[j])
        /\ \A j \in (i + 1)..(k - 1) : NotWhitespaceAt(e[j])
        /\ \A j \in (k + 1)..Len(e) : NotWhitespaceAt(e[j])

ContactInputsOf(f) ==
    CASE f = "name"  -> {Empty, <<"a">>, <<"1">>}
      [] f = "email" -> {Empty, <<"a", "@", "b", ".", "c">>, <<"a", "b">>}
      [] OTHER       -> PlainInputs

\* validate(): the error of each field, "" when it has none
ContactValidate(v) ==
    [f \in ContactFields |->
        IF v[f] = Empty THEN "required"
        ELSE IF f = "name" /\ ~LettersAndSpaces(v[f]) THEN "invalid"
        ELSE IF f = "email" /\ ~ContactEmailPattern(v[f]) THEN "invalid"
        ELSE ""]

InitContact ==
    /\ FreshAnimation
    /\ NoLoad
    /\ NoDisposal
    /\ NoConfigure
    /\ NoHost
    /\ NoScroll
    /\ FreshBooking
    /\ FreshContact

\* handleChange: set the field, clear its error
ContactChange(f, value) ==
    /\ formValues[f] # value
    /\ formValues' = [formValues EXCEPT ![f] = value]
    /\ formErrors' = [formErrors EXCEPT ![f] = ""]
    /\ UNCHANGED <<successMessage, errorMessage, isSubmitting, isLoading, sendsInFlight,
                   sendsSettled, lastSubmit>>
    /\ UNCHANGED notContactVars

\* a submit handler that does not look at isLoading
BusyIgnored == FALSE

\* if (isLoading) return
Busy == isLoading

\* handleSubmit up to its await (the handler of the latest render; the form it belongs
\* to is not rendered while isLoading)
ContactSubmit ==
    /\ IF Busy
       THEN /\ lastSubmit' = "busy"
            /\ UNCHANGED <<formErrors, successMessage, errorMessage, isSubmitting,
                           isLoading, sendsInFlight>>
       ELSE IF ContactValidate(formValues) # NoContactErrors
       THEN /\ lastSubmit' = "invalid"
            /\ formErrors' = ContactValidate(formValues)
            /\ UNCHANGED <<successMessage, errorMessage, isSubmitting, isLoading,
                           sendsInFlight>>
       ELSE /\ lastSubmit' = "sent"
            /\ formErrors' = NoContactErrors
            /\ isSubmitting' = TRUE
            /\ errorMessage' = FALSE
            /\ successMessage' = FALSE
            /\ isLoading' = TRUE
            /\ sendsInFlight' = sendsInFlight + 1
    /\ UNCHANGED <<formValues, sendsSettled>>
    /\ UNCHANGED notContactVars

\* emailjs.sendForm settles: handleSubmit after its await, catch and finally
ContactSendSettled(ok) ==
    /\ sendsInFlight > 0
    /\ sendsInFlight' = sendsInFlight - 1
    /\ sendsSettled' = TRUE
    /\ IF ok
       THEN /\ successMessage' = TRUE
            /\ formValues' = [f \in ContactFields |-> Empty]
            /\ formErrors' = NoContactErrors
            /\ UNCHANGED errorMessage
       ELSE /\ errorMessage' = TRUE
            /\ UNCHANGED <<successMessage, formValues, formErrors>>
    /\ isSubmitting' = FALSE
    /\ isLoading' = FALSE
    /\ UNCHANGED lastSubmit
    /\ UNCHANGED notContactVars

NextContact ==
    \/ \E f \in ContactFields : \E value \in ContactInputsOf(f) : ContactChange(f, value)
    \/ ContactSubmit
    \/ \E ok \in BOOLEAN : ContactSendSettled(ok)

SpecContact == InitContact /\ [][NextContact]_vars

\* ------------------------------------------------------------------ animation hook
\* the objects handed to the hook: two with animation clips, one without
AnimObjects == {"walker", "dancer", "statue"}
HasClips(o) == o \in {"walker", "dancer"}

\* where the try block of the effect can throw: nowhere, in new AnimationMixer(object),
\* or in mixer.clipAction(clip)
AnimFailures(o) ==
    IF o = "null" THEN {"none"}
    ELSE IF HasClips(o) THEN {"none", "mixer", "clip"} ELSE {"none", "mixer"}

InitAnimation ==
    /\ NoLoad
    /\ NoDisposal
    /\ NoConfigure
    /\ NoHost
    /\ NoScroll
    /\ FreshBooking
    /\ FreshContact
    /\ FreshAnimation

\* the state the effect cleanup leaves, given the state st it finds and the object it
\* captured: setIsInitialized(false), mixerRef.current?.uncacheRoot(object), then the
\* three refs are reset
AfterCleanup(st, captured) ==
    IF captured = "none" THEN st
    ELSE [st EXCEPT !.isInitialized = FALSE,
                    !.unreleased = {m \in st.unreleased :
                                       ~(m = st.mixerRef /\ m.root = captured)},
                    !.mixerRef = NoMixer,
                    !.clipsRef = "none",
                    !.actionsRef = "none",
                    !.cleanupFor = "none"]

\* the state the effect body leaves for object o: a null object returns at once; an
\* object without clips returns from inside the try block, so no cleanup is returned;
\* an error is caught and the cleanup is returned
AfterEffect(st, o, fail, run) ==
    IF o = "null" THEN st
    ELSE IF fail = "mixer" THEN [st EXCEPT !.cleanupFor = o]
    ELSE LET made == [root |-> o, run |-> run]
             st1  == [st EXCEPT !.mixerRef = made, !.unreleased = @ \cup {made}]
         IN  IF ~HasClips(o) THEN st1
             ELSE IF fail = "clip" THEN [st1 EXCEPT !.cleanupFor = o]
             ELSE [st1 EXCEPT !.clipsRef = o, !.actionsRef = o,
                              !.isInitialized = TRUE, !.cleanupFor = o]

\* the refs and state of the hook as one record
AnimState ==
    [mixerRef |-> mixerRef, clipsRef |-> clipsRef, actionsRef |-> actionsRef,
     isInitialized |-> isInitialized, cleanupFor |-> cleanupFor, unreleased |-> unreleased]

SetAnimState(st) ==
    /\ mixerRef' = st.mixerRef
    /\ clipsRef' = st.clipsRef
    /\ actionsRef' = st.actionsRef
    /\ isInitialized' = st.isInitialized
    /\ cleanupFor' = st.cleanupFor
    /\ unreleased' = st.unreleased

\* first render of the hook with object o: the effect runs
AnimMount(o, fail) ==
    /\ ~animMounted
    /\ runs = 0
    /\ fail \in AnimFailures(o)
    /\ animMounted' = TRUE
    /\ animObject' = o
    /\ runs' = 1
    /\ SetAnimState(AfterEffect(AnimState, o, fail, 1))
    /\ UNCHANGED notAnimVars

\* the object changes: the cleanup of the previous effect runs, if it returned one,
\* then the effect runs for the new object
AnimSetObject(o, fail) ==
    /\ animMounted
    /\ o # animObject
    /\ runs < MaxRuns
    /\ fail \in AnimFailures(o)
    /\ animObject' = o
    /\ runs' = runs + 1
    /\ SetAnimState(AfterEffect(AfterCleanup(AnimState, cleanupFor), o, fail, runs + 1))
    /\ UNCHANGED animMounted
    /\ UNCHANGED notAnimVars

\* the component unmounts: the cleanup of the last effect runs, if it returned one
AnimUnmount ==
    /\ animMounted
    /\ animMounted' = FALSE
    /\ SetAnimState(AfterCleanup(AnimState, cleanupFor))
    /\ UNCHANGED <<animObject, runs>>
    /\ UNCHANGED notAnimVars

NextAnimation ==
    \/ \E o \in AnimObjects \cup {"null"}, fail \in {"none", "mixer", "clip"} :
           AnimMount(o, fail)
    \/ \E o \in AnimObjects \cup {"null"}, fail \in {"none", "mixer", "clip"} :
           AnimSetObject(o, fail)
    \/ AnimUnmount

SpecAnimation == InitAnimation /\ [][NextAnimation]_vars

\* ================================================================== claims
IsAllowed(c) == c \in AllowedChars

\* the path the called entry point works on
RequestedPath == IF entry = "ModelShowcase" THEN ShowcasePath(argPath) ELSE argPath

\* C1: a path that is empty, begins with '.', or contains '..' is rejected with an error
\* by every entry point, and the underlying loader's load is never called for it.
C1_UnsafePathRejected ==
    (entry # "none" /\ (IsEmptyPath(argPath) \/ StartsWithDot(argPath) \/ IncludesDotDot(argPath)))
        => (phase = "rejected" /\ failure.kind # "none" /\ loadCalls = <<>>)

\* C2: for a path that passed validation, the path handed to the underlying loader is
\* non-empty, does not begin with '.', and does not contain '..'.
C2_HandedPathSafe ==
    entry \in {"loadAsset", "loadSampleModel", "loadModel"}
        => \A i \in 1..Len(loadCalls) :
              /\ loadCalls[i] # <<>>
              /\ ~StartsWithDot(loadCalls[i])
              /\ ~IncludesDotDot(loadCalls[i])

\* C3: the path handed to the underlying loader is the requested path with exactly the
\* characters outside [a-zA-Z0-9/._-] removed, the others kept in their order; also on
\* the loadSampleModel -> loadAsset route, which strips twice.
C3_HandedIsStripped ==
    \A i \in 1..Len(loadCalls) : loadCalls[i] = SelectSeq(RequestedPath, IsAllowed)

\* C3 witness: loadSampleModel dispatched a load of a path that held a disallowed character
C3_Witness ==
    /\ entry = "loadSampleModel"
    /\ phase = "pending"
    /\ Len(loadCalls) = 1
    /\ \E i \in 1..Len(argPath) : ~IsAllowed(argPath[i])
    /\ Len(loadCalls[1]) < Len(argPath)

\* C4: when the underlying load fails, the failure delivered by loadAsset and by
\* loadSampleModel carries the originally requested path and the underlying cause.
C4_FailureCarriesPathAndCause ==
    (phase = "failed" /\ entry \in {"loadAsset", "loadSampleModel"})
        => (failure.path = argPath /\ failure.cause = loaderError)

\* C5: within one load, each value passed to the progress callback is >= the previous one.
C5_ProgressNonDecreasing ==
    \A i \in 2..Len(reported) : Geq(reported[i], reported[i - 1])

\* C6: every reported progress value lies in [0,100].
C6_ProgressInRange ==
    \A i \in 1..Len(reported) : InRange(reported[i])

\* ---- disposal claims
LogSet == {disposeLog[i] : i \in 1..Len(disposeLog)}

\* the meshes of the node, and the resources reachable from them
MeshesOf(n) == IF n = NullNode THEN {} ELSE {n[i] : i \in {j \in 1..Len(n) : n[j].isMesh}}
MatsOf(o)   == {o.material.mats[i] : i \in 1..Len(o.material.mats)}
ReachableResources(n) ==
    {o.geometry : o \in {x \in MeshesOf(n) : x.geometry # NoRes}}
        \cup UNION {MatsOf(o) : o \in MeshesOf(n)}
        \cup {mapOf[m] : m \in {x \in UNION {MatsOf(o) : o \in MeshesOf(n)} : mapOf[x] # NoRes}}

\* C7: disposeModel / disposeMesh on a null node returns without throwing and calls
\* dispose on nothing.
C7_NullIsNoOp ==
    (node = NullNode /\ disposer \in {"disposeModel", "disposeMesh"})
        => (~threw /\ disposeLog = <<>>)

\* C7 witness: disposeModel has been called on a null node
C7_Witness == node = NullNode /\ disposer = "disposeModel" /\ calls = 1

\* C8: after disposeModel(node) returns, every geometry, every material and every map
\* texture of every mesh of the hierarchy has had dispose called on it.
C8_AllReleased ==
    (disposer = "disposeModel" /\ node # NullNode)
        => ReachableResources(node) \subseteq LogSet

C10_SiblingsStillReleased ==
    /\ (disposer = "disposeModel" /\ node # NullNode)
           => (~threw /\ ReachableResources(node) \subseteq LogSet)
    /\ (disposer = "disposeMesh" /\ node # NullNode)
           => (~threw /\ ReachableResources(<<node[1]>>) \subseteq LogSet)

\* C11: a second disposeModel call on the same node does not throw, and it leaves the
\* set of resources dispose has been called on as the first call left it.
C11_SecondCallIdempotent ==
    [][(disposer = "disposeModel" /\ calls >= 1 /\ calls' = calls + 1)
          => (~threw' /\ LogSet' = LogSet)]_vars

\* C11 witness: disposeModel ran twice on a node that holds resources
C11_Witness ==
    /\ disposer = "disposeModel"
    /\ calls = 2
    /\ node # NullNode
    /\ disposeLog # <<>>

\* ---- host cleanup
\* how many times dispose was called on resource r
TimesDisposed(r) == Cardinality({i \in 1..Len(disposeLog) : disposeLog[i] = r})

\* C17: after the unmount cleanup of a host has traversed the node it loaded, dispose has
\* been called exactly once on every geometry, material and texture reachable from it.
C17_EachResourceOnce ==
    (disposer = "cleanup" /\ calls = 1 /\ node # NullNode)
        => \A r \in ReachableResources(node) : TimesDisposed(r) = 1

\* C21: the unmount cleanup's traversal of the loaded node never throws, whatever the
\* shape of the node.
C21_CleanupNeverThrows ==
    disposer = "cleanup" => ~threw

\* ---- configuration claims
\* the materials of the meshes under the node
MatsUnder(n) == UNION {MatsOf(o) : o \in MeshesOf(n)}

\* C12: setupModelProperties and configureModelMaterial on an absent node fail and change
\* nothing; on a present node setupModelProperties changes exactly the transforms for
\* which an override was supplied.
C12_AbsentNodeFailsPresentNodeSelective ==
    [][(cfgOp.op = "none" /\ cfgOp'.op # "none")
          => IF node = NullNode
             THEN cfgThrew' /\ transform' = transform /\ matProps' = matProps
             ELSE cfgOp'.op = "setup"
                     => /\ ~cfgThrew'
                        /\ matProps' = matProps
                        /\ \A f \in TransformFields :
                              transform'[f] = IF cfgOp'.args[f] = Absent
                                              THEN transform[f] ELSE cfgOp'.args[f]]_vars

\* C12 witness: setupModelProperties changed the position of a present node and left its
\* rotation, for which nothing was supplied, as it was
C12_Witness ==
    /\ node # NullNode
    /\ cfgOp.op = "setup"
    /\ cfgOp.args["position"] # Absent
    /\ cfgOp.args["rotation"] = Absent
    /\ transform["position"] = cfgOp.args["position"]
    /\ transform["rotation"] = InitialTransform["rotation"]

\* C13 as stated: every override key a material under the node owns takes the override
\* value, every other key is skipped, and the call completes without error.
C13_OwnedKeysApplied ==
    [][(cfgOp.op = "none" /\ cfgOp'.op = "configure" /\ node # NullNode)
          => /\ ~cfgThrew'
             /\ \A m \in Materials, k \in Keys :
                   matProps'[m][k] =
                       IF m \in MatsUnder(node) /\ cfgOp'.props[k] # Absent
                                                /\ matProps[m][k] # Absent
                       THEN cfgOp'.props[k] ELSE matProps[m][k]]_vars

\* C13 amended: every override key a material under the node owns, and whose assignment
\* does not throw, takes the override value; a key the material lacks or whose assignment
\* throws is skipped; skipping never stops the remaining keys, materials or meshes, and
\* the call completes without error.
C13_OwnedAssignableKeysApplied ==
    [][(cfgOp.op = "none" /\ cfgOp'.op = "configure" /\ node # NullNode)
          => /\ ~cfgThrew'
             /\ transform' = transform
             /\ \A m \in Materials, k \in Keys :
                   matProps'[m][k] =
                       IF m \in MatsUnder(node) /\ cfgOp'.props[k] # Absent
                                                /\ matProps[m][k] # Absent
                                                /\ k \notin frozen
                       THEN cfgOp'.props[k] ELSE matProps[m][k]]_vars

\* C13 witness: an override of two keys on a material that lacks the first was applied
\* to the second
C13_Witness ==
    /\ cfgOp.op = "configure"
    /\ node # NullNode
    /\ ~cfgThrew
    /\ cfgOp.props["k1"] # Absent
    /\ cfgOp.props["k2"] # Absent
    /\ \E m \in MatsUnder(node) :
           matProps[m]["k1"] = Absent /\ matProps[m]["k2"] = cfgOp.props["k2"]

\* ---- scene host claims
\* the loads of this mount that are still in flight, and those that failed
PendingLoads == {l \in LoadNames : loads[l] = "pending"}
FailedLoads  == {l \in LoadNames : loads[l] = "failed"}

\* how many times node l was added to the scene
TimesAttached(l) == Cardinality({i \in 1..Len(scene) : scene[i] = l})

\* C14: within one mount, once the host shows Ready or Error its display state never
\* changes again and it requests no further load.
C14_ReadyAndErrorTerminal ==
    [][(hpc = "mounted" /\ hpc' = "mounted" /\ DisplayState \in {"Ready", "Error"})
          => /\ DisplayState' = DisplayState
             /\ PendingLoads' \subseteq PendingLoads]_vars

\* C15: once the load of /models/room.glb has succeeded in a mounted host, its node is
\* in the scene exactly once, and when no load of the host is in flight or has failed
\* the host shows Ready.
C15_RoomAttachedOnceAndReady ==
    (hpc = "mounted" /\ host \in {"AdvancedScene", "RoomScene"} /\ loads["room"] = "ok")
        => /\ TimesAttached("room") = 1
           /\ (PendingLoads = {} /\ FailedLoads = {}) => DisplayState = "Ready"

\* C16: in a mounted host, once a load has failed the host shows Error with a message
\* that embeds the path of a failed load.
C16_FailedLoadShowsError ==
    (hpc = "mounted" /\ FailedLoads # {})
        => /\ DisplayState = "Error"
           /\ hError \in {LoadFailed(l) : l \in FailedLoads}

\* C18: the listeners registered on window are exactly the one of the currently mounted
\* host, if it has been initialised without failure, and none otherwise.
C18_ListenersOfMountedHostsOnly ==
    listeners = IF hpc = "mounted" /\ ListenerEvent(host) # "none" /\ hasCleanup
                THEN {[event |-> ListenerEvent(host), gen |-> mounts]}
                ELSE {}

\* C18 witness: a host was mounted, unmounted and mounted again, this time with its
\* initialisation failing, and no listener is left
C18_Witness ==
    /\ hpc = "mounted"
    /\ mounts = 2
    /\ ListenerEvent(host) # "none"
    /\ ~hasCleanup
    /\ listeners = {}

\* C19: once the host has unmounted, no renderer created for it is left undisposed.
C19_NoContextAfterUnmount ==
    hpc = "unmounted" => contexts = {}

\* C20: once the host has unmounted, a load callback changes none of its state and
\* adds nothing to its scene.
C20_NoChangeAfterUnmount ==
    [][(hpc = "unmounted" /\ hpc' = "unmounted")
          => UNCHANGED <<hError, hProgress, hLoading, hModel, refs, scene>>]_vars

\* C22: an error raised in a host's frame callback is caught inside the callback, so
\* that it never reaches the render loop, and the callback can run on the next frame.
C22_FrameErrorsCaught ==
    /\ frameErr # "escaped"
    /\ (hpc = "mounted" /\ host \in FrameHosts /\ frames < MaxFrames)
           => ENABLED Frame(FALSE)

\* C23: in RoomScene the node of a load is in the scene, exactly once, exactly when that
\* load has succeeded, whatever has become of the other load.
C23_LoadsAttachIndependently ==
    host = "RoomScene"
        => \A l \in LoadNames :
               TimesAttached(l) = IF loads[l] = "ok" THEN 1 ELSE 0

\* C23 witness: the room load failed first and the maid node was attached all the same
C23_Witness ==
    /\ host = "RoomScene"
    /\ hpc = "mounted"
    /\ loads["room"] = "failed"
    /\ hError = LoadFailed("room")
    /\ loads["maid"] = "ok"
    /\ scene = <<"maid">>

\* C24: whenever a model load has been dispatched, detectSupport was called before it
\* on a renderer held by a host, not on one constructed for the call.
C24_DetectionOnHostRenderer ==
    (assetType = "gltf" /\ loadCalls # <<>>) => detectedOn.role \in {"ref", "effect"}

\* C26: while the load issued by a mounted ModelShowcase is in flight, the host shows
\* Loading.
C26_ShowcaseLoadingWhileInFlight ==
    (host = "ModelShowcase" /\ hpc = "mounted" /\ PendingLoads # {})
        => DisplayState = "Loading"

\* C27: RoomScene has both loads in flight once it has mounted, and when the maid load
\* resolves the maid is placed beside the room exactly if the room node was attached
\* before.
C27_MaidPlacedByResolutionOrder ==
    [][host = "RoomScene" =>
          /\ (hpc # "mounted" /\ hpc' = "mounted" /\ hasCleanup')
                 => \A l \in LoadNames : loads'[l] = "pending"
          /\ (loads["maid"] = "pending" /\ loads'["maid"] = "ok")
                 => (maidPosition' = "beside" <=> TimesAttached("room") = 1)]_vars

\* C27 witness: both loads succeeded, the maid first, and the maid stayed at the origin
C27_Witness ==
    /\ host = "RoomScene"
    /\ scene = <<"maid", "room">>
    /\ maidPosition = "origin"

\* ---- scrolling claims
\* 0 <= x <= 1
InUnit(x) == x.kind = "number" /\ x.n >= 0 /\ x.n <= x.d

\* C25: the scroll progress of useScrollAnimation and the one the ScrollScene frame
\* callback uses are numbers between 0 and 1.
C25_ScrollProgressInUnit ==
    InUnit(scrollProgress) /\ InUnit(cubeScroll)

\* ---- booking form claims
\* local@domain.tld without whitespace: /^[^\s@]+@[^\s@]+\.[^\s@]+$/
NotSpaceAt(c) == c \notin {" ", "@"}
WellFormedEmail(e) ==
    \E i \in 2..Len(e), k \in 4..Len(e) :
        /\ i + 1 < k
        /\ k + 1 <= Len(e)
        /\ e[i] = "@"
        /\ e[k] = "."
        /\ \A j \in 1..(i - 1) : NotSpaceAt(e[j])
        /\ \A j \in (i + 1)..(k - 1) : NotSpaceAt(e[j])
        /\ \A j \in (k + 1)..Len(e) : NotSpaceAt(e[j])

\* exactly ten digits
IsTenDigits(p) ==
    Len(p) = 10 /\ \A j \in 1..10 : p[j] \in {"0", "1", "2", "3", "4", "5", "6", "7", "8", "9"}

\* the booking the claim calls valid
WellFormedBooking(v) ==
    /\ \A f \in BookingFields : v[f] # Empty
    /\ WellFormedEmail(v["email"])
    /\ IsTenDigits(v["phone"])

\* C28: submitting a booking with six non-empty fields, an email of the shape
\* local@domain.tld and a phone of ten digits passes validation and starts the
\* submission; submitting any other booking starts none and leaves the values and the
\* success message as they are.
C28_WellFormedBookingAccepted ==
    [][(bookingSubmits' = bookingSubmits + 1)
          => IF WellFormedBooking(bookingValues)
             THEN bookingInFlight' = bookingInFlight + 1 /\ bookingErrors' = NoErrors
             ELSE /\ bookingInFlight' = bookingInFlight
                  /\ bookingValues' = bookingValues
                  /\ bookingSuccess' = bookingSuccess]_vars

\* ---- contact form claims
\* C29: at most one send is in flight, and once a send has settled and none is in flight
\* isSubmitting and isLoading are false and exactly one of the two messages is set.
C29_OneSendAtATime ==
    /\ sendsInFlight <= 1
    /\ (sendsSettled /\ sendsInFlight = 0)
           => /\ ~isSubmitting
              /\ ~isLoading
              /\ successMessage # errorMessage

\* C29 witness: a submit event arrived while a send was in flight and sent nothing
C29_Witness ==
    /\ lastSubmit = "busy"
    /\ sendsInFlight = 1
    /\ isLoading

\* ---- animation hook claims
\* the mixer the effect made for the object the hook currently holds
CurrentMixer == [root |-> animObject, run |-> runs]

\* C30: every mixer made for an earlier object, or for any object once the hook has
\* unmounted, has been released with uncacheRoot; and after a change to null or an
\* unmount mixerRef, the clip map and the action map are reset and isInitialized is
\* false while mounted.
C30_PreviousMixerReleased ==
    /\ \A m \in unreleased : animMounted /\ m = CurrentMixer
    /\ (runs > 0 /\ (animObject = "null" \/ ~animMounted))
           => /\ mixerRef = NoMixer
              /\ clipsRef = "none"
              /\ actionsRef = "none"
    /\ (animMounted /\ animObject = "null") => ~isInitialized

====
